---- MODULE Spec2Model ----
(***************************************************************************)
(* Model of openlineage/airflow/extractors/base.py: the TaskMetadata attrs *)
(* class and the BaseExtractor abstract base class.                        *)
(*                                                                         *)
(* Two specifications:                                                     *)
(*   Spec      extractor instances: construction (__init__, patch), the    *)
(*             calls validate, extract, extract_on_complete and            *)
(*             get_operator_classnames, and patch() and __init__ called by *)
(*             hand on a constructed instance, interleaved over several    *)
(*             instances                                                   *)
(*   SpecMeta  TaskMetadata records on a heap of list and dict objects:    *)
(*             construction with omitted / supplied arguments, attribute   *)
(*             assignment and in-place mutation of the collections         *)
(***************************************************************************)
EXTENDS Integers, Sequences, FiniteSets, TLC

VARIABLES pyDebug, extractors, patchCalls, lastCall,
          records, lists, dicts, lastMeta, ops

extVars  == <<extractors, patchCalls, lastCall>>
metaVars == <<records, lists, dicts, lastMeta, ops>>
vars     == <<pyDebug, extractors, patchCalls, lastCall,
              records, lists, dicts, lastMeta, ops>>

(***************************************************************************)
(* Bounds                                                                  *)
(***************************************************************************)
MaxExtractors == 2

\* the calls of patch() and __init__ made by hand on constructed instances
MaxHandCalls == 1

\* the number of operations (constructions and mutations) of a SpecMeta run
MaxOps == 3

(***************************************************************************)
(* Python values and call outcomes                                         *)
(***************************************************************************)
PyNone == [tag |-> "None"]

Return(v) == [kind |-> "return", value |-> v]

Raise(exc) == [kind |-> "raise", exc |-> exc]

\* __debug__: Python compiles `assert` statements in unless the interpreter is
\* started with -O / PYTHONOPTIMIZE; either way for the whole process, which
\* pyDebug records.
InterpreterModes == BOOLEAN

(***************************************************************************)
(* Operators (Airflow tasks) an extractor can be bound to.  Each has a     *)
(* runtime class; MyBigQueryOperator is a user subclass of                 *)
(* BigQueryOperator, itself a deprecated alias that subclasses             *)
(* BigQueryExecuteQueryOperator.                                           *)
(***************************************************************************)
OperatorObjects ==
    << [cls |-> "BigQueryOperator",   task_id |-> "bq_task"],
       [cls |-> "MyBigQueryOperator", task_id |-> "my_task"],
       [cls |-> "PostgresOperator",   task_id |-> "pg_task"] >>

OperatorIds == DOMAIN OperatorObjects

\* operator.__class__.__name__
ClassName(op) == OperatorObjects[op].cls

(***************************************************************************)
(* Concrete extractor classes.  BaseExtractor is abstract (extract), so    *)
(* every instance is of a subclass; a subclass may or may not override     *)
(* get_operator_classnames.  Neither overrides patch or                    *)
(* extract_on_complete.                                                    *)
(***************************************************************************)
ExtractorClasses ==
    [ BigQueryExtractor |->
        [ overrides_classnames |-> TRUE,
          classnames           |-> <<"BigQueryOperator", "BigQueryExecuteQueryOperator">> ],
      UndeclaredExtractor |->
        [ overrides_classnames |-> FALSE,
          classnames           |-> <<>> ] ]

ExtractorClassNames == DOMAIN ExtractorClasses

TaskInstances == {"ti_success", "ti_failed"}

ExtractorIds == 1..MaxExtractors

NoExtractor == [pc |-> "free", cls |-> "", arg |-> 0, operator |-> 0]

(***************************************************************************)
(* BaseExtractor                                                           *)
(***************************************************************************)

\* x in xs, for a Python list xs: equality with some element
In(x, xs) == \E i \in DOMAIN xs : xs[i] = x

\* the comparison validate() makes between the class name and the list
NameSupported(name, names) == In(name, names)

\* variant: a base class that declares no names instead of raising
BaseEmptyClassnames(cls) == Return([tag |-> "list", items |-> <<>>])

\* BaseExtractor.get_operator_classnames as written in the base class
BaseExtractor_get_operator_classnames(cls) == Raise("NotImplementedError")

\* cls.get_operator_classnames(): the override when the class has one
get_operator_classnames(cls) ==
    IF ExtractorClasses[cls].overrides_classnames
    THEN Return([tag |-> "list", items |-> ExtractorClasses[cls].classnames])
    ELSE BaseExtractor_get_operator_classnames(cls)

\* assert <condition>, in a process where assert statements are compiled in
AssertOutcome(cond) ==
    IF cond THEN Return(PyNone) ELSE Raise("AssertionError")

\* self.validate(): its body is one assert statement.  With __debug__ false
\* the statement is not compiled in, so neither the class name is read nor
\* get_operator_classnames() called, and validate() returns None.  Otherwise
\* the expression is evaluated, get_operator_classnames() first: what it
\* raises propagates, what it returns is searched for the class name.
validate(self) ==
    IF ~pyDebug
    THEN Return(PyNone)
    ELSE LET names == get_operator_classnames(self.cls)
         IN  IF names.kind = "raise"
             THEN names
             ELSE AssertOutcome(NameSupported(ClassName(self.operator),
                                              names.value.items))

\* the record a concrete extract() builds: TaskMetadata(name=<task id>)
MetadataFor(op) == [tag |-> "TaskMetadata", name |-> OperatorObjects[op].task_id]

\* self.extract(): abstract in the base class; a concrete class returns a
\* record, returns None ("no metadata") or raises
extract(self) ==
    CASE self.cls = "BigQueryExtractor" ->
            IF ClassName(self.operator) = "PostgresOperator"
            THEN Return(PyNone)
            ELSE Return(MetadataFor(self.operator))
      [] self.cls = "UndeclaredExtractor" ->
            IF ClassName(self.operator) = "PostgresOperator"
            THEN Return(MetadataFor(self.operator))
            ELSE Raise("AttributeError")

\* variant: an extract_on_complete that validates before it extracts
OnCompleteChecked(self, task_instance) ==
    IF validate(self).kind = "raise" THEN validate(self) ELSE extract(self)

\* self.extract_on_complete(task_instance), as written in the base class
extract_on_complete(self, task_instance) == extract(self)

\* variant: the operator kept in a class attribute, shared by the instances
\* of the class
ClassLevelOperator(exts, e, operator) ==
    [f \in DOMAIN exts |->
        IF exts[f].pc # "free" /\ exts[f].cls = exts[e].cls
        THEN [exts[f] EXCEPT !.operator = operator]
        ELSE exts[f]]

\* self.operator = operator
SetOperator(exts, e, operator) == [exts EXCEPT ![e].operator = operator]

\* variant: an __init__ that returns without calling patch()
SkipPatch == "ready"

\* the statement of __init__ that follows the assignment: self.patch()
AfterSetOperator == "patch"

\* the caller holds a reference to the instance once __init__ has returned
CanInvoke(e) == extractors[e].pc = "ready"

\* variant: a validate() that runs patch() on its instance
ValidatePatchesAgain(calls, e) == [calls EXCEPT ![e] = @ + 1]

\* the patch() invocations after a validate() on e: validate() makes none
PatchCallsOfValidate(calls, e) == calls

Call(op, e, cls, arg, outcome) ==
    [op |-> op, self |-> e, cls |-> cls, arg |-> arg, outcome |-> outcome]

ExtInit ==
    /\ pyDebug \in InterpreterModes
    /\ extractors = [e \in ExtractorIds |-> NoExtractor]
    /\ patchCalls = [e \in ExtractorIds |-> 0]
    /\ lastCall = Call("none", 0, "", "", Return(PyNone))

\* ExtractorClass(operator) is evaluated: the object exists, __init__ is
\* entered, super().__init__() has run and self.operator = operator is done
New(e, cls, operator) ==
    /\ extractors[e].pc = "free"
    /\ \A f \in ExtractorIds : f < e => extractors[f].pc # "free"
    /\ extractors' =
          SetOperator([extractors EXCEPT
                         ![e] = [pc |-> AfterSetOperator, cls |-> cls,
                                 arg |-> operator, operator |-> 0]],
                      e, operator)
    /\ lastCall' = Call("__init__:operator", e, cls, "", Return(PyNone))
    /\ UNCHANGED patchCalls

\* self.patch(), a no-op in the base class, and __init__ returns
InitPatch(e) ==
    /\ extractors[e].pc = "patch"
    /\ patchCalls' = [patchCalls EXCEPT ![e] = @ + 1]
    /\ extractors' = [extractors EXCEPT ![e].pc = "ready"]
    /\ lastCall' = Call("__init__:patch", e, extractors[e].cls, "", Return(PyNone))

\* the patch() runs on instances 1..n beyond the one of their construction
RECURSIVE HandCalls(_)
HandCalls(n) ==
    IF n = 0 THEN 0
    ELSE HandCalls(n - 1) + (IF patchCalls[n] > 1 THEN patchCalls[n] - 1 ELSE 0)

\* instance.patch(): the public method called by hand on a constructed
\* instance; a no-op in the base class, it returns None
Patch(e) ==
    /\ CanInvoke(e)
    /\ HandCalls(MaxExtractors) < MaxHandCalls
    /\ patchCalls' = [patchCalls EXCEPT ![e] = @ + 1]
    /\ lastCall' = Call("patch", e, extractors[e].cls, "", Return(PyNone))
    /\ UNCHANGED extractors

\* instance.__init__(operator) called by hand on a constructed instance: the
\* operator is rebound and patch() runs again
ReInit(e, operator) ==
    /\ CanInvoke(e)
    /\ HandCalls(MaxExtractors) < MaxHandCalls
    /\ extractors' = [SetOperator(extractors, e, operator) EXCEPT ![e].arg = operator]
    /\ patchCalls' = [patchCalls EXCEPT ![e] = @ + 1]
    /\ lastCall' = Call("__init__", e, extractors[e].cls, "", Return(PyNone))

Validate(e) ==
    /\ CanInvoke(e)
    /\ lastCall' = Call("validate", e, extractors[e].cls, "", validate(extractors[e]))
    /\ patchCalls' = PatchCallsOfValidate(patchCalls, e)
    /\ UNCHANGED extractors

Extract(e) ==
    /\ CanInvoke(e)
    /\ lastCall' = Call("extract", e, extractors[e].cls, "", extract(extractors[e]))
    /\ UNCHANGED <<extractors, patchCalls>>

ExtractOnComplete(e, task_instance) ==
    /\ CanInvoke(e)
    /\ lastCall' = Call("extract_on_complete", e, extractors[e].cls, task_instance,
                        extract_on_complete(extractors[e], task_instance))
    /\ UNCHANGED <<extractors, patchCalls>>

\* cls.get_operator_classnames(), on the class, no instance involved
ClassnamesOnClass(cls) ==
    /\ lastCall' = Call("get_operator_classnames", 0, cls, "",
                        get_operator_classnames(cls))
    /\ UNCHANGED <<extractors, patchCalls>>

\* instance.get_operator_classnames(): a classmethod, so type(instance) is passed
ClassnamesOnInstance(e) ==
    /\ CanInvoke(e)
    /\ lastCall' = Call("get_operator_classnames", e, extractors[e].cls, "",
                        get_operator_classnames(extractors[e].cls))
    /\ UNCHANGED <<extractors, patchCalls>>

(***************************************************************************)
(* TaskMetadata                                                            *)
(*                                                                         *)
(* Python lists and dicts are objects with identity: `lists` and `dicts`   *)
(* are the heap (the index is the object's identity), and a field of a     *)
(* record holds a reference, None or a string.  A dict is the set of its   *)
(* <<key, value>> items.                                                   *)
(***************************************************************************)
ListFields == {"inputs", "outputs"}

DictFields == {"run_facets", "job_facets"}

CollectionFields == ListFields \cup DictFields

Fields == {"name"} \cup CollectionFields

\* attr.NOTHING: the argument was not passed
NOTHING == [tag |-> "NOTHING"]

PyStr(s) == [tag |-> "str", s |-> s]

ListRef(id) == [tag |-> "list", id |-> id]

DictRef(id) == [tag |-> "dict", id |-> id]

Datasets == {"ds_in", "ds_out"}

FacetKeys == {"sql"}

Facets == {"facet_a", "facet_b"}

\* the list and the dict the caller holds before any record exists
CallerList == ListRef(1)

CallerDict == DictRef(1)

\* what the caller passes for an argument it does not omit
GivenArgs ==
    [ inputs     |-> CallerList,
      outputs    |-> PyNone,
      run_facets |-> CallerDict,
      job_facets |-> PyNone ]

\* what the caller assigns to an attribute of a record
AssignedValues ==
    [ name       |-> PyStr("renamed"),
      inputs     |-> PyNone,
      outputs    |-> CallerList,
      run_facets |-> PyNone,
      job_facets |-> CallerDict ]

\* the keyword arguments of a call: each collection is omitted or given
ConstructorArgs ==
    { [ name       |-> PyStr("bq_task"),
        inputs     |-> IF "inputs" \in om THEN NOTHING ELSE GivenArgs.inputs,
        outputs    |-> IF "outputs" \in om THEN NOTHING ELSE GivenArgs.outputs,
        run_facets |-> IF "run_facets" \in om THEN NOTHING ELSE GivenArgs.run_facets,
        job_facets |-> IF "job_facets" \in om THEN NOTHING ELSE GivenArgs.job_facets ]
      : om \in SUBSET CollectionFields }

\* 1 when the argument is omitted, so that its factory runs
Made(arg) == IF arg = NOTHING THEN 1 ELSE 0

\* variant: default=<one object>, the same object for every omitted argument
SharedDefault(n, k) == 1

\* factory=list / factory=dict: the k-th object this construction creates,
\* n objects of the kind existing before it
FactoryObject(n, k) == n + k

\* the attrs-generated __init__: the fields in declaration order, each the
\* argument as passed or, when omitted, what its factory returns
TaskMetadataInit(args, nl, nd) ==
    [ name       |-> args.name,
      inputs     |-> IF args.inputs = NOTHING
                     THEN ListRef(FactoryObject(nl, 1)) ELSE args.inputs,
      outputs    |-> IF args.outputs = NOTHING
                     THEN ListRef(FactoryObject(nl, Made(args.inputs) + 1))
                     ELSE args.outputs,
      run_facets |-> IF args.run_facets = NOTHING
                     THEN DictRef(FactoryObject(nd, 1)) ELSE args.run_facets,
      job_facets |-> IF args.job_facets = NOTHING
                     THEN DictRef(FactoryObject(nd, Made(args.run_facets) + 1))
                     ELSE args.job_facets ]

\* n new empty lists (list()) / dicts (dict()) on the heap
RECURSIVE WithNew(_, _, _)
WithNew(heap, n, empty) ==
    IF n = 0 THEN heap ELSE WithNew(Append(heap, empty), n - 1, empty)

\* the value of a field as the caller reads it: the contents of the object
\* the field refers to, or the field itself when it holds no reference
FieldValue(v, ls, ds) ==
    CASE v.tag = "list" -> [tag |-> "list", items |-> ls[v.id]]
      [] v.tag = "dict" -> [tag |-> "dict", entries |-> ds[v.id]]
      [] OTHER          -> v

RecordValue(r, ls, ds) == [f \in Fields |-> FieldValue(r[f], ls, ds)]

MetaCall(op, rec, args) == [op |-> op, rec |-> rec, args |-> args]

NoArgs == [f \in Fields |-> NOTHING]

MetaInit ==
    /\ records = <<>>
    /\ lists = << <<>> >>
    /\ dicts = << {} >>
    /\ lastMeta = MetaCall("none", 0, NoArgs)
    /\ ops = 0

\* TaskMetadata(name, ...)
Construct(args) ==
    /\ ops < MaxOps
    /\ records' = Append(records, TaskMetadataInit(args, Len(lists), Len(dicts)))
    /\ lists' = WithNew(lists, Made(args.inputs) + Made(args.outputs), <<>>)
    /\ dicts' = WithNew(dicts, Made(args.run_facets) + Made(args.job_facets), {})
    /\ lastMeta' = MetaCall("construct", Len(records) + 1, args)
    /\ ops' = ops + 1

\* record.<field> = value: the class is not frozen, the attribute is rebound
SetAttr(r, field) ==
    /\ ops < MaxOps
    /\ r \in DOMAIN records
    /\ records' = [records EXCEPT ![r][field] = AssignedValues[field]]
    /\ lastMeta' = MetaCall("setattr", r, NoArgs)
    /\ ops' = ops + 1
    /\ UNCHANGED <<lists, dicts>>

\* xs.append(dataset) on a list object, reached through a record or held by
\* the caller
ListAppend(l, dataset) ==
    /\ ops < MaxOps
    /\ l \in DOMAIN lists
    /\ lists' = [lists EXCEPT ![l] = Append(@, dataset)]
    /\ lastMeta' = MetaCall("append", 0, NoArgs)
    /\ ops' = ops + 1
    /\ UNCHANGED <<records, dicts>>

\* d[key] = facet on a dict object
DictSetItem(d, key, facet) ==
    /\ ops < MaxOps
    /\ d \in DOMAIN dicts
    /\ dicts' = [dicts EXCEPT
                   ![d] = {kv \in @ : kv[1] # key} \cup {<<key, facet>>}]
    /\ lastMeta' = MetaCall("setitem", 0, NoArgs)
    /\ ops' = ops + 1
    /\ UNCHANGED <<records, lists>>

(***************************************************************************)
(* Specifications                                                          *)
(***************************************************************************)
Init == ExtInit /\ MetaInit

Next ==
    \/ \E e \in ExtractorIds, cls \in ExtractorClassNames, operator \in OperatorIds :
          New(e, cls, operator) /\ UNCHANGED <<metaVars, pyDebug>>
    \/ \E e \in ExtractorIds : InitPatch(e) /\ UNCHANGED <<metaVars, pyDebug>>
    \/ \E e \in ExtractorIds : Validate(e) /\ UNCHANGED <<metaVars, pyDebug>>
    \/ \E e \in ExtractorIds : Extract(e) /\ UNCHANGED <<metaVars, pyDebug>>
    \/ \E e \in ExtractorIds, ti \in TaskInstances :
          ExtractOnComplete(e, ti) /\ UNCHANGED <<metaVars, pyDebug>>
    \/ \E cls \in ExtractorClassNames : ClassnamesOnClass(cls) /\ UNCHANGED <<metaVars, pyDebug>>
    \/ \E e \in ExtractorIds : ClassnamesOnInstance(e) /\ UNCHANGED <<metaVars, pyDebug>>
    \/ \E e \in ExtractorIds : Patch(e) /\ UNCHANGED <<metaVars, pyDebug>>
    \/ \E e \in ExtractorIds, operator \in OperatorIds :
          ReInit(e, operator) /\ UNCHANGED <<metaVars, pyDebug>>

Spec == Init /\ [][Next]_vars

NextMeta ==
    \/ \E args \in ConstructorArgs : Construct(args) /\ UNCHANGED <<extVars, pyDebug>>
    \/ \E r \in 1..MaxOps, field \in Fields : SetAttr(r, field) /\ UNCHANGED <<extVars, pyDebug>>
    \/ \E l \in 1..(2 * MaxOps + 1), dataset \in Datasets :
          ListAppend(l, dataset) /\ UNCHANGED <<extVars, pyDebug>>
    \/ \E d \in 1..(2 * MaxOps + 1), key \in FacetKeys, facet \in Facets :
          DictSetItem(d, key, facet) /\ UNCHANGED <<extVars, pyDebug>>

SpecMeta == Init /\ [][NextMeta]_vars

(***************************************************************************)
(* Properties                                                              *)
(***************************************************************************)
MethodCalls == {"validate", "extract", "extract_on_complete", "get_operator_classnames"}

Overrides(cls) == ExtractorClasses[cls].overrides_classnames

\* the set S of the names get_operator_classnames() lists for the class
Supported(cls) ==
    {ExtractorClasses[cls].classnames[i] : i \in DOMAIN ExtractorClasses[cls].classnames}

\* C1 (as claimed): for a class whose get_operator_classnames() returns S, validate()
\* returns normally exactly when the bound operator's own class name is in S,
\* and raises AssertionError to the caller otherwise; the names of the
\* operator's base classes play no part.
C1_ValidateIffClassNameSupported ==
    (lastCall.op = "validate" /\ Overrides(lastCall.cls)) =>
        LET name == OperatorObjects[extractors[lastCall.self].operator].cls
        IN  /\ (lastCall.outcome = Return(PyNone)) <=> (name \in Supported(lastCall.cls))
            /\ (name \notin Supported(lastCall.cls)) =>
                   lastCall.outcome = Raise("AssertionError")

\* C2: on a class that does not override it, every get_operator_classnames()
\* call raises NotImplementedError, whether made on the class (no instance) or
\* on an instance, and whatever the other instances are doing.
C2_UnimplementedAlwaysRaises ==
    (lastCall.op = "get_operator_classnames" /\ ~Overrides(lastCall.cls)) =>
        lastCall.outcome = Raise("NotImplementedError")

\* the call was made on the class, no instance involved, while an instance of
\* that class was still inside __init__
C2_Witness ==
    /\ lastCall.op = "get_operator_classnames"
    /\ lastCall.self = 0
    /\ lastCall.cls = "UndeclaredExtractor"
    /\ \E e \in ExtractorIds :
          extractors[e].cls = "UndeclaredExtractor" /\ extractors[e].pc = "patch"

\* C3: on a class that does not override extract_on_complete, a call of
\* extract_on_complete(task_instance) has the outcome extract() has on the
\* same instance (a record, None or the exception raised), for every
\* task_instance and also when validate() would fail.
C3_OnCompleteDelegatesToExtract ==
    (lastCall.op = "extract_on_complete") =>
        lastCall.outcome = extract(extractors[lastCall.self])

\* extract_on_complete returned a record on an instance bound to an operator
\* its class does not support
C3_Witness ==
    /\ lastCall.op = "extract_on_complete"
    /\ lastCall.cls = "BigQueryExtractor"
    /\ ClassName(extractors[lastCall.self].operator) = "MyBigQueryOperator"
    /\ validate(extractors[lastCall.self]) = Raise("AssertionError")
    /\ lastCall.outcome.kind = "return"
    /\ lastCall.outcome.value.tag = "TaskMetadata"

\* the (record, field) pairs other than (r, f) that hold the reference v
OtherHolders(r, f, v) ==
    {rf \in (DOMAIN records) \X CollectionFields :
        rf # <<r, f>> /\ records[rf[1]][rf[2]] = v}

\* C4: right after a construction, each omitted collection field refers to an
\* empty list (inputs, outputs) or an empty dict (run_facets, job_facets) that
\* no other field of any record and no variable of the caller refers to, and
\* each supplied field holds the argument as passed; whatever was constructed
\* or mutated before.
C4_OmittedFieldsFreshAndEmpty ==
    (lastMeta.op = "construct") =>
        LET r == lastMeta.rec
            args == lastMeta.args
        IN  /\ records[r].name = args.name
            /\ \A f \in CollectionFields :
                  IF args[f] = NOTHING
                  THEN /\ records[r][f].tag = (IF f \in ListFields THEN "list" ELSE "dict")
                       /\ FieldValue(records[r][f], lists, dicts) \in
                             {[tag |-> "list", items |-> <<>>],
                              [tag |-> "dict", entries |-> {}]}
                       /\ OtherHolders(r, f, records[r][f]) = {}
                       /\ records[r][f] \notin {CallerList, CallerDict}
                  ELSE records[r][f] = args[f]

\* a second record was constructed with inputs and job_facets omitted and the
\* others supplied, after the first record's default inputs list was appended to
C4_Witness ==
    /\ lastMeta.op = "construct"
    /\ lastMeta.rec = 2
    /\ lastMeta.args.inputs = NOTHING
    /\ lastMeta.args.job_facets = NOTHING
    /\ lastMeta.args.outputs # NOTHING
    /\ lastMeta.args.run_facets # NOTHING
    /\ records[1].inputs.tag = "list"
    /\ records[1].inputs # CallerList
    /\ lists[records[1].inputs.id] # <<>>

\* C5 (as claimed): an instance whose __init__ has returned has had its
\* operator stored and patch() run exactly once, an instance still inside
\* __init__ has had no patch() run, and the methods are only ever called on
\* instances whose __init__ has returned, with exactly one patch() run.
C5_BoundExactlyOnce ==
    /\ \A e \in ExtractorIds :
          /\ extractors[e].pc = "ready" =>
                patchCalls[e] = 1 /\ extractors[e].operator = extractors[e].arg
          /\ extractors[e].pc # "ready" => patchCalls[e] = 0
    /\ (lastCall.op \in MethodCalls /\ lastCall.self # 0) =>
          /\ extractors[lastCall.self].pc = "ready"
          /\ patchCalls[lastCall.self] = 1

\* C5 (amended): a construction stores the operator and runs patch() exactly
\* once before __init__ returns, and no patch() has run on an instance still
\* inside it; validate, extract, extract_on_complete and
\* get_operator_classnames are called only on instances whose __init__ has
\* returned and leave the patch() runs and the bound operators as they were;
\* patch() runs again, one run per call, only by a call of patch() or of
\* __init__ on the instance, and the operator is rebound only by __init__.
C5_ConstructionBindsOnceBeforeUse ==
    [][/\ \A e \in ExtractorIds :
             /\ (extractors[e].pc # "ready" /\ extractors'[e].pc = "ready") =>
                   /\ patchCalls'[e] = 1
                   /\ extractors'[e].operator = extractors'[e].arg
                   /\ extractors'[e].operator \in OperatorIds
             /\ (extractors'[e].pc # "ready") => patchCalls'[e] = 0
             /\ (patchCalls'[e] # patchCalls[e]) =>
                   /\ patchCalls'[e] = patchCalls[e] + 1
                   /\ lastCall'.self = e
                   /\ lastCall'.op \in {"__init__:patch", "patch", "__init__"}
             /\ (extractors'[e].operator # extractors[e].operator) =>
                   /\ lastCall'.self = e
                   /\ lastCall'.op \in {"__init__:operator", "__init__"}
       /\ (lastCall'.op \in MethodCalls) =>
             /\ patchCalls' = patchCalls
             /\ extractors' = extractors
             /\ (lastCall'.self # 0) =>
                   /\ extractors[lastCall'.self].pc = "ready"
                   /\ patchCalls[lastCall'.self] >= 1]_vars

\* validate() ran on an instance on which patch() had been called by hand
\* after its construction, while another instance was between the assignment
\* of its operator and its patch()
C5_Witness ==
    /\ lastCall.op = "validate"
    /\ patchCalls[lastCall.self] = 2
    /\ \E f \in ExtractorIds : f # lastCall.self /\ extractors[f].pc = "patch"

\* C6: a validate() call, whether it returns or raises, leaves every
\* extractor's fields and the patch() counts as they were, its outcome is the
\* one validate() had before the call and has after it, and the instance can
\* still be called afterwards.
C6_ValidateIsPure ==
    [][(lastCall'.op = "validate") =>
          /\ extractors' = extractors
          /\ patchCalls' = patchCalls
          /\ lastCall'.outcome = validate(extractors[lastCall'.self])
          /\ lastCall'.outcome = validate(extractors'[lastCall'.self])
          /\ extractors'[lastCall'.self].pc = "ready"]_vars

\* validate() has just raised AssertionError on an instance that is still
\* callable and on which extract() returns a record
C6_Witness ==
    /\ lastCall.op = "validate"
    /\ lastCall.outcome = Raise("AssertionError")
    /\ CanInvoke(lastCall.self)
    /\ extract(extractors[lastCall.self]).kind = "return"
    /\ extract(extractors[lastCall.self]).value.tag = "TaskMetadata"

\* C7: a step of one extractor (of its construction or a call on it, failing
\* or not) leaves every other extractor's fields and patch() count unchanged,
\* and with them the outcome of validate, extract and extract_on_complete on
\* every other extractor.
C7_NoSharedState ==
    [][\A f \in ExtractorIds :
          (f # lastCall'.self) =>
              /\ extractors'[f] = extractors[f]
              /\ patchCalls'[f] = patchCalls[f]
              /\ (extractors[f].pc = "ready") =>
                    /\ validate(extractors'[f]) = validate(extractors[f])
                    /\ extract(extractors'[f]) = extract(extractors[f])
                    /\ \A ti \in TaskInstances :
                          extract_on_complete(extractors'[f], ti)
                             = extract_on_complete(extractors[f], ti)]_vars

\* two instances of one class bound to different operators: extract() has just
\* raised on one, the other is one on which extract() returns a record
C7_Witness ==
    /\ lastCall.op = "extract"
    /\ lastCall.outcome.kind = "raise"
    /\ \E f \in ExtractorIds :
          /\ f # lastCall.self
          /\ extractors[f].pc = "ready"
          /\ extractors[f].cls = extractors[lastCall.self].cls
          /\ extractors[f].operator # extractors[lastCall.self].operator
          /\ extract(extractors[f]).kind = "return"

\* C8 (as claimed): no step changes the value of any field of a record that
\* exists: neither the field itself nor the contents of its list or dict.
C8_RecordsNeverChange ==
    [][\A r \in DOMAIN records :
          RecordValue(records[r], lists, dicts)' = RecordValue(records[r], lists, dicts)]_vars

\* C9 (as claimed): whatever arguments a construction was given, no field of
\* the record it made is None.
C9_NoFieldIsNone ==
    (lastMeta.op = "construct") =>
        \A f \in Fields : records[lastMeta.rec][f] # PyNone

\* C10 (as claimed): on a class that does not override get_operator_classnames(),
\* validate() raises NotImplementedError whatever operator is bound; an
\* AssertionError comes only from a class that lists its names, for an
\* operator whose class name is not among them.
C10_ValidateFailuresDistinct ==
    (lastCall.op = "validate") =>
        /\ ~Overrides(lastCall.cls) => lastCall.outcome = Raise("NotImplementedError")
        /\ (lastCall.outcome = Raise("AssertionError")) =>
              /\ Overrides(lastCall.cls)
              /\ ClassName(extractors[lastCall.self].operator)
                    \notin Supported(lastCall.cls)

====
